---- MODULE Spec2Model ----
(***************************************************************************)
(* A model of the software rasterizer of src/src/main.rs: the event loop   *)
(* of main, World::draw, World::draw_triangle, is_front_facing,            *)
(* handle_keys and object_depth.                                           *)
(*                                                                         *)
(* Numbers.  The program computes in f32.  An f32 is modelled as a binary  *)
(* floating-point number m * 2^e whose significand holds MantBits bits     *)
(* (f32: 24), with an unbounded exponent, NaN and the infinities; zero has *)
(* no sign.  Every arithmetic operation rounds its exact result to the     *)
(* nearest such number, ties to even, as IEEE 754 does.                    *)
(***************************************************************************)
EXTENDS Integers, Sequences, FiniteSets, TLC

\* Bits of a significand (f32 has 24; TLC's integers have 32 bits in all).
MantBits == 8

\* The element of a set of one.  An operator's arguments are bound this way,
\* x \in {argument}, where the operator uses them more than once.
The(S) == CHOOSE r \in S : TRUE

Abs(x) == IF x < 0 THEN -x ELSE x

Sign(x) == IF x < 0 THEN -1 ELSE IF x > 0 THEN 1 ELSE 0

\* The bits of n, for 0 <= n < 2^31.
BitLen(n) == Cardinality({k \in 0..30 : 2^k <= n})

\* The zero bits n ends with, for n # 0.
TrailingZeros(n) == Cardinality({k \in 1..30 : n % (2^k) = 0})

RECURSIVE ISqrtBits(_, _, _)
\* The largest r with r*r <= n, found bit by bit from bit b down.
ISqrtBits(n, r, b) ==
    IF b < 0 THEN r
    ELSE IF (r + 2^b) * (r + 2^b) <= n THEN ISqrtBits(n, r + 2^b, b - 1)
    ELSE ISqrtBits(n, r, b - 1)

\* For 0 <= n < 2^30.
ISqrt(n) == ISqrtBits(n, 0, 14)

NaN == [c |-> "nan", m |-> 0, e |-> 0]

Inf(s) == [c |-> "inf", m |-> s, e |-> 0]

IsNum(a) == a.c = "num"

is_finite(a) == a.c = "num"

is_nan(a) == a.c = "nan"

\* The one representation of m * 2^e: m odd, and zero as 0 * 2^0.
Norm(m0, e0) ==
    The({ IF m = 0 THEN [c |-> "num", m |-> 0, e |-> 0]
          ELSE The({[c |-> "num", m |-> m \div (2^k), e |-> e + k] : k \in {TrailingZeros(m)}})
        : m \in {m0}, e \in {e0} })

\* m * 2^e rounded to MantBits significant bits, to nearest, ties to even.
Round(m0, e0) ==
    The({ IF n <= MantBits THEN Norm(m, e)
          ELSE LET sh   == n - MantBits
                   q    == Abs(m) \div (2^sh)
                   r    == Abs(m) % (2^sh)
                   half == 2^(sh - 1)
                   up   == r > half \/ (r = half /\ q % 2 = 1)
               IN  Norm(Sign(m) * (IF up THEN q + 1 ELSE q), e + sh)
        : m \in {m0}, e \in {e0}, n \in {BitLen(Abs(m0))} })

\* An integer as f32 (n as f32).
F(n) == Round(n, 0)

FNeg(x) ==
    The({ IF IsNum(a) THEN [a EXCEPT !.m = -a.m] ELSE IF a.c = "inf" THEN Inf(-a.m) ELSE NaN
        : a \in {x} })

FAdd(x, y) ==
    The({ IF is_nan(a) \/ is_nan(b) THEN NaN
          ELSE IF a.c = "inf" /\ b.c = "inf" THEN (IF a.m = b.m THEN a ELSE NaN)
          ELSE IF a.c = "inf" THEN a
          ELSE IF b.c = "inf" THEN b
          ELSE IF a.m = 0 THEN b
          ELSE IF b.m = 0 THEN a
          ELSE LET hi == IF a.e >= b.e THEN a ELSE b
                   lo == IF a.e >= b.e THEN b ELSE a
                   d  == hi.e - lo.e
               IN  \* Further apart than that, lo is below half a unit of hi's last place.
                   IF d > 2 * MantBits + 2 THEN hi
                   ELSE Round(hi.m * 2^d + lo.m, lo.e)
        : a \in {x}, b \in {y} })

FSub(x, y) == FAdd(x, FNeg(y))

FMul(x, y) ==
    The({ IF is_nan(a) \/ is_nan(b) THEN NaN
          ELSE IF a.c = "inf" \/ b.c = "inf"
               THEN (IF a.m = 0 \/ b.m = 0 THEN NaN ELSE Inf(Sign(a.m) * Sign(b.m)))
          ELSE Round(a.m * b.m, a.e + b.e)
        : a \in {x}, b \in {y} })

FDiv(x, y) ==
    The({ IF is_nan(a) \/ is_nan(b) THEN NaN
          ELSE IF a.c = "inf" THEN (IF b.c = "inf" THEN NaN ELSE Inf(a.m * (IF b.m < 0 THEN -1 ELSE 1)))
          ELSE IF b.c = "inf" THEN F(0)
          ELSE IF b.m = 0 THEN (IF a.m = 0 THEN NaN ELSE Inf(Sign(a.m)))
          ELSE IF a.m = 0 THEN F(0)
          ELSE LET k   == 2 * MantBits + 1
                   num == Abs(a.m) * 2^k
                   q   == num \div Abs(b.m)
                   st  == IF num % Abs(b.m) = 0 THEN 0 ELSE 1
               IN  Round(Sign(a.m) * Sign(b.m) * (2 * q + st), a.e - b.e - k - 1)
        : a \in {x}, b \in {y} })

FSqrt(x) ==
    The({ IF is_nan(a) THEN NaN
          ELSE IF a.c = "inf" THEN (IF a.m > 0 THEN a ELSE NaN)
          ELSE IF a.m < 0 THEN NaN
          ELSE IF a.m = 0 THEN F(0)
          ELSE LET k0 == 2 * MantBits + 2
                   k  == k0 + ((a.e - k0) % 2)
               IN  The({ Round(2 * r + (IF r * r = a.m * 2^k THEN 0 ELSE 1), ((a.e - k) \div 2) - 1)
                       : r \in {ISqrt(a.m * 2^k)} })
        : a \in {x} })

\* The sign of a - b: rounding to nearest never moves a difference across zero.
FCmp(a, b) == Sign(FSub(a, b).m)

FLt(x, y) == \E a \in {x}, b \in {y} : IsNum(a) /\ IsNum(b) /\ FCmp(a, b) < 0

FLe(x, y) == \E a \in {x}, b \in {y} : IsNum(a) /\ IsNum(b) /\ FCmp(a, b) <= 0

FGt(a, b) == FLt(b, a)

FGe(a, b) == FLe(b, a)

\* f32::min and f32::max: a NaN operand is ignored.
FMin(x, y) ==
    The({ IF is_nan(a) THEN b ELSE IF is_nan(b) THEN a ELSE IF FLe(a, b) THEN a ELSE b
        : a \in {x}, b \in {y} })

FMax(x, y) ==
    The({ IF is_nan(a) THEN b ELSE IF is_nan(b) THEN a ELSE IF FGe(a, b) THEN a ELSE b
        : a \in {x}, b \in {y} })

I32Max == 2147483647

\* `a as i32`: truncation toward zero, saturating at the ends of i32, NaN to 0.
AsI32(x) ==
    The({ IF is_nan(a) THEN 0
          ELSE IF a.c = "inf" THEN (IF a.m > 0 THEN I32Max ELSE -I32Max - 1)
          ELSE IF a.e >= 0
               THEN (IF BitLen(Abs(a.m)) + a.e > 31
                     THEN (IF a.m > 0 THEN I32Max ELSE -I32Max - 1)
                     ELSE a.m * 2^(a.e))
          ELSE IF -a.e >= 31 THEN 0
          ELSE Sign(a.m) * (Abs(a.m) \div 2^(-a.e))
        : a \in {x} })

\* `a as u8`: truncation toward zero, saturating at 0 and 255, NaN to 0.
AsU8(x) == The({ IF i < 0 THEN 0 ELSE IF i > 255 THEN 255 ELSE i : i \in {AsI32(x)} })

\* f32::clamp(lo, hi): a NaN stays NaN.
FClamp(x, lo, hi) ==
    The({ IF is_nan(a) THEN NaN ELSE IF FLt(a, lo) THEN lo ELSE IF FGt(a, hi) THEN hi ELSE a
        : a \in {x} })

(***************************************************************************)
(* Vectors and matrices (nalgebra).  A vector is a tuple of f32, a Matrix4 *)
(* a tuple of four rows.                                                   *)
(***************************************************************************)
V3(x, y, z) == <<F(x), F(y), F(z)>>

VSub(x, y) == The({ [i \in DOMAIN a |-> FSub(a[i], b[i])] : a \in {x}, b \in {y} })

VScale(x, y) == The({ [i \in DOMAIN a |-> FMul(a[i], s)] : a \in {x}, s \in {y} })

VUnscale(x, y) == The({ [i \in DOMAIN a |-> FDiv(a[i], s)] : a \in {x}, s \in {y} })

VNeg(x) == The({ [i \in DOMAIN a |-> FNeg(a[i])] : a \in {x} })

Dot3(x, y) ==
    The({ FAdd(FAdd(FMul(a[1], b[1]), FMul(a[2], b[2])), FMul(a[3], b[3]))
        : a \in {x}, b \in {y} })

VNorm(x) == The({ FSqrt(Dot3(a, a)) : a \in {x} })

\* Vector3::normalize: the vector divided by its norm.
Normalize(x) == The({ VUnscale(a, VNorm(a)) : a \in {x} })

Cross(x, y) ==
    The({ << FSub(FMul(a[2], b[3]), FMul(a[3], b[2])),
             FSub(FMul(a[3], b[1]), FMul(a[1], b[3])),
             FSub(FMul(a[1], b[2]), FMul(a[2], b[1])) >>
        : a \in {x}, b \in {y} })

Dot4(x, y) ==
    The({ FAdd(FAdd(FAdd(FMul(a[1], b[1]), FMul(a[2], b[2])), FMul(a[3], b[3])), FMul(a[4], b[4]))
        : a \in {x}, b \in {y} })

Col(m, j) == <<m[1][j], m[2][j], m[3][j], m[4][j]>>

MatMul(x, y) ==
    The({ [i \in 1..4 |-> [j \in 1..4 |-> Dot4(a[i], Col(b, j))]] : a \in {x}, b \in {y} })

MatVec(x, y) == The({ [i \in 1..4 |-> Dot4(a[i], v)] : a \in {x}, v \in {y} })

\* Vector4::from(Point3) and Point4::new(x, y, z, 1.0): homogeneous coordinates.
Homogeneous(p) == <<p[1], p[2], p[3], F(1)>>

\* Matrix4::transform_point: the point times the upper 3x4 block, divided by
\* the homogeneous coordinate when that is not zero.
TransformPoint(x, y) ==
    The({ The({ IF IsNum(n) /\ n.m = 0 THEN t ELSE VUnscale(t, n)
              : n \in {Dot4(m[4], h)},
                t \in {<<Dot4(m[1], h), Dot4(m[2], h), Dot4(m[3], h)>>} })
        : m \in {x}, h \in {Homogeneous(y)} })

\* Matrix4::look_at_rh: the rows are the camera's x, y and z axes, the last
\* column the rotated -eye.
look_at_rh(eye, target, up) ==
    The({ The({ The({ << <<xaxis[1], xaxis[2], xaxis[3], Dot3(xaxis, neye)>>,
                         <<yaxis[1], yaxis[2], yaxis[3], Dot3(yaxis, neye)>>,
                         <<zaxis[1], zaxis[2], zaxis[3], Dot3(zaxis, neye)>>,
                         <<F(0), F(0), F(0), F(1)>> >>
                    : yaxis \in {Normalize(Cross(zaxis, xaxis))} })
              : xaxis \in {Normalize(Cross(up, zaxis))} })
        : zaxis \in {Normalize(VNeg(VSub(target, eye)))}, neye \in {VNeg(eye)} })

generate_view_mat(camera) == look_at_rh(camera.position, camera.target, camera.up)

\* The model matrix World::draw builds from an object's offset.
model_mat(o) ==
    << <<F(1), F(0), F(0), o.offset_x>>,
       <<F(0), F(1), F(0), o.offset_y>>,
       <<F(0), F(0), F(1), o.offset_z>>,
       <<F(0), F(0), F(0), F(1)>> >>

object_depth(camera, mm) ==
    LET view_mat   == generate_view_mat(camera)
        view_model == MatMul(view_mat, mm)
        object_pos == TransformPoint(view_model, <<F(0), F(0), F(0)>>)
    IN  object_pos[3]

\* OrderedFloat's order: NaN is equal to itself and above every number.
OrdLe(a, b) == is_nan(b) \/ (~is_nan(a) /\ FLe(a, b))

RECURSIVE InsertByKey(_, _)
\* x put behind the last element whose key is not above its own.
InsertByKey(s0, x0) ==
    The({ IF s = <<>> THEN <<x>>
          ELSE IF OrdLe(s[Len(s)].key, x.key) THEN Append(s, x)
          ELSE Append(InsertByKey(SubSeq(s, 1, Len(s) - 1), x), s[Len(s)])
        : s \in {s0}, x \in {x0} })

RECURSIVE SortFrom(_, _)
\* The elements of todo inserted, one after another, into done.
SortFrom(done, todo0) ==
    The({ IF todo = <<>> THEN done ELSE SortFrom(InsertByKey(done, Head(todo)), Tail(todo))
        : todo \in {todo0} })

\* slice::sort_by_key: a stable sort, ascending in the key.  s holds the
\* elements with their keys.
sort_by_key(x) == The({ SortFrom(<<>>, s) : s \in {x} })

(***************************************************************************)
(* The frame and the rasterizer.  The frame is the byte buffer             *)
(* pixels.frame_mut() hands to draw: 4 bytes (R, G, B, A) a pixel, row by  *)
(* row.  The model's image is WIDTH x HEIGHT pixels with WIDTH and HEIGHT  *)
(* scaled down from the program's 500.                                     *)
(***************************************************************************)
WIDTH == 4

HEIGHT == 4

FrameLen == WIDTH * HEIGHT * 4

Point2(x, y) == <<x, y>>

\* cross of is_front_facing: the signed area of (p1, p2, p3), doubled.
SignedArea(q1, q2, q3) ==
    The({ FSub(FMul(FSub(p2[1], p1[1]), FSub(p3[2], p1[2])),
               FMul(FSub(p2[2], p1[2]), FSub(p3[1], p1[1])))
        : p1 \in {q1}, p2 \in {q2}, p3 \in {q3} })

\* is_front_facing if it took cross >= 0.0.
NotBackFacing(p1, p2, p3) == FGe(SignedArea(p1, p2, p3), F(0))

\* is_front_facing: cross > 0.0
is_front_facing(p1, p2, p3) == FGt(SignedArea(p1, p2, p3), F(0))

\* colormap if the conversion to u8 wrapped.
colormap_wrapping(comp, coloring) == AsI32(FMul(F(comp), coloring)) % 256

\* The closure colormap of draw_triangle: ((comp as f32) * coloring) as u8.
colormap(comp, coloring) == AsU8(FMul(F(comp), coloring))

\* coloring of draw_triangle: ambient + diffuse + specular.
Coloring(light, norm) ==
    LET light_dir == Normalize(VSub(light.target, light.position))
        ambient   == light.ambient
        diffuse   == FClamp(FMul(Dot3(light_dir, norm), light.intensity), F(0), F(1))
        specular  == F(0)
    IN  FAdd(FAdd(ambient, diffuse), specular)

\* p_color of draw_triangle.
Shade(light, color0, norm) ==
    The({ [r |-> colormap(color.r, coloring),
           g |-> colormap(color.g, coloring),
           b |-> colormap(color.b, coloring),
           a |-> color.a]
        : color \in {color0}, coloring \in {Coloring(light, norm)} })

\* The closure edge of draw_triangle.
edge(a0, b0, p0) ==
    The({ FSub(FMul(FSub(p[2], a[2]), FSub(b[1], a[1])),
               FMul(FSub(p[1], a[1]), FSub(b[2], a[2])))
        : a \in {a0}, b \in {b0}, p \in {p0} })

\* The inside test of draw_triangle at the point p.
InsideTest(t1, t2, t3, p) ==
    LET w0 == edge(t2, t3, p)
        w1 == edge(t3, t1, p)
        w2 == edge(t1, t2, p)
    IN  FGe(w0, F(0)) /\ FGe(w1, F(0)) /\ FGe(w2, F(0))

\* min_x and min_y of draw_triangle.
BoxMin(c1, c2, c3) == AsI32(FMax(FMin(FMin(c1, c2), c3), F(0)))

\* max_x and max_y of draw_triangle; size is WIDTH or HEIGHT.
BoxMax(c1, c2, c3, size) ==
    AsI32(FAdd(FMin(FMax(FMax(c1, c2), c3), FSub(F(size), F(1))), F(1)))

\* (y as u32 * WIDTH + x as u32) * 4 in u32.  The products are far from 2^32;
\* a negative result stands for the u32 it wraps to, 2^32 more, which is
\* beyond every buffer.
PixelIndex(x, y) == (y * WIDTH + x) * 4

\* The check if it left out the four bytes: index as usize <= frame.len().
InFrameLoose(index, len) == index >= 0 /\ index <= len

\* The check that guards the write: index as usize + 4 <= frame.len().
InFrame(index, len) == index >= 0 /\ index + 4 <= len

\* The integer points the two loops of draw_triangle visit.
Tested(q1, q2, q3) ==
    The({ (BoxMin(t1[1], t2[1], t3[1]) .. BoxMax(t1[1], t2[1], t3[1], WIDTH))
             \X (BoxMin(t1[2], t2[2], t3[2]) .. BoxMax(t1[2], t2[2], t3[2], HEIGHT))
        : t1 \in {q1}, t2 \in {q2}, t3 \in {q3} })

\* The visited points that pass the inside test.
Inside(q1, q2, q3) ==
    The({ {p \in Tested(t1, t2, t3) : InsideTest(t1, t2, t3, Point2(F(p[1]), F(p[2])))}
        : t1 \in {q1}, t2 \in {q2}, t3 \in {q3} })

\* The frame with the four bytes rgba written at each offset of writes.
Written(frame0, writes0, rgba0) ==
    The({ [i \in DOMAIN frame |-> IF (i - (i % 4)) \in writes THEN rgba[(i % 4) + 1] ELSE frame[i]]
        : frame \in {frame0}, writes \in {writes0}, rgba \in {rgba0} })

\* draw_triangle: the frame it leaves, with what the claims speak of: the
\* points tested, those inside, the byte offsets of the writes (those past
\* the guard), whether one of them reaches outside the buffer (the slice
\* index then panics), and whether a negative coordinate was converted to an
\* index.
draw_triangle(light, t1, t2, t3, color, frame, norm) ==
    The({ The({ [called   |-> TRUE,
                 frame    |-> Written(frame, writes, <<p_color.r, p_color.g, p_color.b, p_color.a>>),
                 p_color  |-> p_color,
                 tested   |-> Tested(t1, t2, t3),
                 inside   |-> inside,
                 writes   |-> writes,
                 panic    |-> \E w \in writes : w + 4 > FrameLen,
                 negative |-> \E p \in inside : p[1] < 0 \/ p[2] < 0]
              : writes \in {{PixelIndex(p[1], p[2]) :
                               p \in {q \in inside : InFrame(PixelIndex(q[1], q[2]), FrameLen)}}} })
        : p_color \in {Shade(light, color, norm)}, inside \in {Inside(t1, t2, t3)} })

(***************************************************************************)
(* The world.  World::new takes the camera, the light, the projection      *)
(* matrix and the objects.  The camera and the light are main's.  The      *)
(* meshes of main are PHackMesh, whose source (mod mesh) is not among the  *)
(* files modelled; the model's two objects are small meshes in front of    *)
(* main's camera, and its projection is Perspective3 with a field of view  *)
(* of a right angle and the planes at 2 and 6 (main: 1.0, 0.1 and 200.0),  *)
(* which makes the matrix exact in MantBits bits and puts the objects'     *)
(* vertices on, before and behind the ends of the visible depths.  A mesh  *)
(* is what the trait Mesh gives: verts() and tris(); vertex i of the       *)
(* source is At(verts, i).                                                 *)
(***************************************************************************)
At(s, i) == s[i + 1]

Color(r, g, b, a) == [r |-> r, g |-> g, b |-> b, a |-> a]

Triangle(v1, v2, v3, color) == [v1 |-> v1, v2 |-> v2, v3 |-> v3, color |-> color]

Object(mesh, x, y, z) == [mesh |-> mesh, offset_x |-> F(x), offset_y |-> F(y), offset_z |-> F(z)]

\* Perspective3::new(aspect, fovy, znear, zfar).to_homogeneous(), with
\* f = 1 / tan(fovy / 2) given in place of fovy.
Perspective3(aspect, f, znear, zfar) ==
    << <<FDiv(f, aspect), F(0), F(0), F(0)>>,
       <<F(0), f, F(0), F(0)>>,
       <<F(0), F(0), FDiv(FAdd(zfar, znear), FSub(znear, zfar)),
                     FDiv(FMul(FMul(F(2), zfar), znear), FSub(znear, zfar))>>,
       <<F(0), F(0), F(-1), F(0)>> >>

\* Five triangles: two that overlap on the screen at different depths, listed
\* nearer first; the first one again with its last two vertices swapped; one
\* on the near end of the visible depths; one with a vertex before it.
NearMesh ==
    [verts |-> << V3(-4, -4, 0), V3(4, -4, 0), V3(4, 4, 0),
                  V3(-5, -5, 1), V3(5, -5, 1), V3(-5, 5, 1),
                  V3(-3, -3, -1), V3(0, -3, -1), V3(0, 0, -1),
                  V3(0, 0, -2) >>,
     tris  |-> << Triangle(0, 1, 2, Color(200, 40, 40, 255)),
                  Triangle(3, 4, 5, Color(40, 190, 40, 128)),
                  Triangle(0, 2, 1, Color(40, 40, 180, 255)),
                  Triangle(6, 7, 8, Color(150, 150, 20, 255)),
                  Triangle(0, 1, 9, Color(120, 20, 120, 255)) >>]

\* One triangle in a corner of the screen, on the far end of the visible
\* depths.
FarMesh ==
    [verts |-> << V3(6, 6, 0), V3(0, 6, 0), V3(6, 0, 0) >>,
     tris  |-> << Triangle(0, 1, 2, Color(90, 90, 90, 255)) >>]

\* The world given to World::new: main's light, the two objects and the
\* projection.
TheWorld ==
    [light    |-> [position  |-> V3(-1, 1, -1),
                   target    |-> V3(0, 0, 0),
                   intensity |-> F(1),
                   ambient   |-> FDiv(F(3), F(10))],
     models   |-> << Object(NearMesh, 0, 0, -1), Object(FarMesh, 0, 0, 1) >>,
     proj_mat |-> Perspective3(FDiv(F(WIDTH), F(HEIGHT)), F(1), F(2), F(6))]

\* The camera main gives World::new.
InitCamera ==
    [position |-> V3(0, 0, -5),
     target   |-> V3(0, 0, 0),
     up       |-> V3(0, 1, 0),
     pitch    |-> F(0),
     yaw      |-> F(0)]

(***************************************************************************)
(* World::draw, step by step.                                              *)
(***************************************************************************)
\* The vertex marked not visible: Point2::new(f32::NAN, f32::NAN).
Sentinel == Point2(NaN, NaN)

\* The test with an exclusive range, 0.0 < ndc_z < 1.0.
ContainsOpen01(ndc_z) == FLt(F(0), ndc_z) /\ FLt(ndc_z, F(1))

\* (0.0..=1.0).contains(&ndc_z)
Contains01(ndc_z) == FLe(F(0), ndc_z) /\ FLe(ndc_z, F(1))

\* ndc_z of a vertex: persproj.z / persproj.w.
NdcZ(proj, vertex) ==
    The({ FDiv(persproj[3], persproj[4]) : persproj \in {MatVec(proj, Homogeneous(vertex))} })

\* What the loop over the vertices pushes on screen_verts.
ScreenVert(proj, vertex) ==
    The({ LET ndc_x == FDiv(persproj[1], persproj[4])
              ndc_y == FDiv(persproj[2], persproj[4])
              ndc_z == FDiv(persproj[3], persproj[4])
          IN  IF ~Contains01(ndc_z) THEN Sentinel
              ELSE LET screen_x == FMul(FMul(FAdd(ndc_x, F(1)), FDiv(F(1), F(2))), F(WIDTH))
                       screen_y == FMul(FMul(FSub(F(1), ndc_y), FDiv(F(1), F(2))), F(HEIGHT))
                   IN  Point2(screen_x, screen_y)
        : persproj \in {MatVec(proj, Homogeneous(vertex))} })

\* The key of a triangle: the mean of its vertices' z in zbuffer.
TriDepth(zbuf, tri) ==
    FDiv(FAdd(FAdd(At(zbuf, tri.v1)[3], At(zbuf, tri.v2)[3]), At(zbuf, tri.v3)[3]), F(3))

\* sorted_models without the sort.
UnsortedModels(world, camera) ==
    [i \in 1..Len(world.models) |->
       [item |-> i, key |-> object_depth(camera, model_mat(world.models[i]))]]

\* sorted_models: the objects (by their place in models) with their model
\* matrices, sorted by object_depth.
SortedModels(world, camera) ==
    sort_by_key([i \in 1..Len(world.models) |->
                   [item |-> i, key |-> object_depth(camera, model_mat(world.models[i]))]])

\* z_ordered_tris without the sort.
UnorderedTris(mesh, zbuf) ==
    [i \in 1..Len(mesh.tris) |-> [item |-> i - 1, key |-> TriDepth(zbuf, mesh.tris[i])]]

\* z_ordered_tris: the triangles (by their place in tris()) with their keys,
\* sorted by the key.
ZOrderedTris(mesh, zbuf) ==
    sort_by_key([i \in 1..Len(mesh.tris) |->
                   [item |-> i - 1, key |-> TriDepth(zbuf, mesh.tris[i])]])

\* The test that skips a triangle with a vertex marked not visible.
AnyNotFinite(s1, s2, s3) == ~is_finite(s1[1]) \/ ~is_finite(s2[1]) \/ ~is_finite(s3[1])

\* The face normal draw computes from the world-space vertices.
FaceNormal(v1, v2, v3) ==
    LET xyz(v) == <<v[1], v[2], v[3]>>
    IN  Cross(Normalize(VSub(xyz(v2), xyz(v1))), Normalize(VSub(xyz(v3), xyz(v1))))

\* What a triangle that draw does not hand to draw_triangle leaves.
NotDrawn(color, frame) ==
    [called |-> FALSE, frame |-> frame, p_color |-> color, tested |-> {}, inside |-> {},
     writes |-> {}, panic |-> FALSE, negative |-> FALSE]

\* The last statement of the loop over the triangles: draw_triangle if
\* is_front_facing says so.
CullDraw(light, s1, s2, s3, color, frame, norm) ==
    IF is_front_facing(s1, s2, s3)
    THEN draw_triangle(light, s1, s2, s3, color, frame, norm)
    ELSE NotDrawn(color, frame)

\* draw without the fill.
NoFill(frame) == frame

\* frame.fill(255)
Fill(frame) == [i \in DOMAIN frame |-> 255]

(***************************************************************************)
(* The camera: handle_keys and the mouse orbit of the event loop.          *)
(***************************************************************************)
\* The camera moved by delta in x and z, position and target alike; sgn is
\* 1 where the source adds and -1 where it subtracts.
Moved(camera0, delta, sgn) ==
    The({ [camera EXCEPT
             !.position = <<FAdd(camera.position[1], d[1]), camera.position[2],
                            FAdd(camera.position[3], d[3])>>,
             !.target   = <<FAdd(camera.target[1], d[1]), camera.target[2],
                            FAdd(camera.target[3], d[3])>>]
        : camera \in {camera0}, d \in {IF sgn > 0 THEN delta ELSE VNeg(delta)} })

\* handle_keys, for the set of keys held: the camera it leaves.
handle_keys(held, camera0, move_speed) ==
    The({ LET back == Normalize(VSub(camera.position, camera.target))
              side == VScale(Cross(back, camera.up), move_speed)
              fwd  == VScale(back, move_speed)
          IN  IF "KeyA" \in held THEN Moved(camera, side, 1)
              ELSE IF "KeyD" \in held THEN Moved(camera, side, -1)
              ELSE IF "KeyW" \in held THEN Moved(camera, fwd, -1)
              ELSE IF "KeyS" \in held THEN Moved(camera, fwd, 1)
              ELSE camera
        : camera \in {camera0} })

\* std::f32::consts::FRAC_PI_2, which is 201/128 to 8 and to 9 bits.
FracPi2 == FDiv(F(201), F(128))

\* f32::sin and f32::cos.  The model's mouse does not move (mouse_diff() is
\* (0, 0)), so yaw and pitch stay 0; the two are defined at 0 alone.
Sin(a) == CASE a = F(0) -> F(0)

Cos(a) == CASE a = F(0) -> F(1)

\* The orbit of the event loop: yaw and pitch from the mouse, the target put
\* on the sphere around the position.
Orbit(camera0, dx, dy) ==
    The({ The({ [camera EXCEPT
                   !.yaw    = yaw,
                   !.pitch  = pitch,
                   !.target = <<FAdd(camera.position[1], FMul(FMul(radius, Cos(pitch)), Sin(yaw))),
                                FAdd(camera.position[2], FMul(radius, Sin(pitch))),
                                FAdd(camera.position[3], FMul(FMul(radius, Cos(pitch)), Cos(yaw)))>>]
              : yaw    \in {FSub(camera.yaw, FMul(dx, sensitivity))},
                pitch  \in {FClamp(FSub(camera.pitch, FMul(dy, sensitivity)), FNeg(max_pitch), max_pitch)},
                radius \in {VNorm(VSub(camera.position, camera.target))} })
        : camera      \in {camera0},
          sensitivity \in {FDiv(F(3), F(1000))},
          max_pitch   \in {FSub(FracPi2, FDiv(F(1), F(100)))} })

(***************************************************************************)
(* The state.                                                              *)
(***************************************************************************)
VARIABLES
    camera,            \* world.camera
    frame,             \* the pixel buffer
    redraw,            \* a redraw is requested (window.request_redraw)
    pc,                \* where the event loop's closure is
    view_mat,          \* the closure's view_mat
    sorted_models,     \* draw: the objects still to draw, in order
    cur,               \* draw: the object being drawn (its place in models)
    screen_verts,      \* draw: of the object being drawn
    zbuffer,           \* draw: of the object being drawn
    transformed_verts, \* draw: of the object being drawn
    z_ordered_tris,    \* draw: the triangles still to draw, in order
    log,               \* history: the triangles this draw has gone through
    shot,              \* history: the camera and the frame of the first draw, if any, and
                       \*          whether a draw has followed it
    shotcam,           \* history: the camera the frame was drawn for, if it is a drawn one
    moves,             \* history: how often the keys have moved the camera
    inp,               \* the arguments of a function under test
    out                \* its results

vars == <<camera, frame, redraw, pc, view_mat, sorted_models, cur, screen_verts, zbuffer,
          transformed_verts, z_ordered_tris, log, shot, shotcam, moves, inp, out>>

drawvars == <<sorted_models, cur, screen_verts, zbuffer, transformed_verts, z_ordered_tris>>

\* The key presses the model lets move the camera.
MaxMoves == 1

\* The closure's locals when it is not running.
None == <<>>

\* What the buffer may hold before the first draw.
InitFrames == {[i \in 0..(FrameLen - 1) |-> 0], [i \in 0..(FrameLen - 1) |-> (7 * i) % 256]}

HeldSets == {{}, {"KeyA"}, {"KeyD"}, {"KeyW"}, {"KeyS"}, {"KeyA", "KeyW"}, {"KeyD", "KeyS"}}

Init ==
    /\ camera = InitCamera
    /\ frame \in InitFrames
    /\ redraw = FALSE
    /\ pc = "loop"
    /\ view_mat = None
    /\ sorted_models = None
    /\ cur = 0
    /\ screen_verts = None
    /\ zbuffer = None
    /\ transformed_verts = None
    /\ z_ordered_tris = None
    /\ log = <<>>
    /\ shot = {}
    /\ shotcam = {}
    /\ moves = 0
    /\ inp = None
    /\ out = None

(***************************************************************************)
(* The event loop: one run of the closure of event_loop.run is Callback,   *)
(* the steps of draw if the event asks for a redraw, then InputUpdate.     *)
(***************************************************************************)
\* The view matrix if it were computed once, before the loop.
StaleViewMat(cam) == generate_view_mat(InitCamera)

\* The view matrix the closure computes as it starts.
LoopViewMat(cam) == generate_view_mat(cam)

\* The closure starts: view_mat; for RedrawRequested, draw begins: the frame
\* is filled and the objects are sorted.
Callback(kind) ==
    /\ pc = "loop"
    /\ view_mat' = LoopViewMat(camera)
    /\ IF kind = "RedrawRequested"
       THEN /\ frame' = Fill(frame)
            /\ sorted_models' = SortedModels(TheWorld, camera)
            /\ log' = <<>>
            /\ shotcam' = {}
            /\ redraw' = FALSE
            /\ pc' = "objects"
            /\ UNCHANGED <<camera, cur, screen_verts, zbuffer, transformed_verts,
                           z_ordered_tris, shot, moves, inp, out>>
       ELSE /\ pc' = "input"
            /\ UNCHANGED <<camera, frame, redraw, drawvars, log, shot, shotcam, moves, inp, out>>

\* draw, the head of the loop over sorted_models: the vertices of the next
\* object are projected and its triangles sorted.
ProjectObject ==
    /\ pc = "objects"
    /\ sorted_models # <<>>
    /\ \E o \in {Head(sorted_models).item} :
       \E mesh \in {TheWorld.models[o].mesh}, mm \in {model_mat(TheWorld.models[o])} :
       \E proj \in {MatMul(MatMul(TheWorld.proj_mat, view_mat), mm)}, vm \in {MatMul(view_mat, mm)} :
       \E zbuf \in {[i \in 1..Len(mesh.verts) |-> MatVec(vm, Homogeneous(mesh.verts[i]))]} :
           /\ cur' = o
           /\ screen_verts' = [i \in 1..Len(mesh.verts) |-> ScreenVert(proj, mesh.verts[i])]
           /\ zbuffer' = zbuf
           /\ transformed_verts' = [i \in 1..Len(mesh.verts) |-> MatVec(mm, Homogeneous(mesh.verts[i]))]
           /\ z_ordered_tris' = ZOrderedTris(mesh, zbuf)
           /\ sorted_models' = Tail(sorted_models)
           /\ pc' = IF mesh.tris = <<>> THEN "objects" ELSE "tris"
    /\ UNCHANGED <<camera, frame, redraw, view_mat, log, shot, shotcam, moves, inp, out>>

\* draw, one turn of the loop over z_ordered_tris: the triangle is skipped,
\* culled or rasterized.
DrawTri ==
    /\ pc = "tris"
    /\ z_ordered_tris # <<>>
    /\ \E t \in {Head(z_ordered_tris).item}, rest \in {Tail(z_ordered_tris)} :
       \E tri \in {At(TheWorld.models[cur].mesh.tris, t)} :
       \E s1 \in {At(screen_verts, tri.v1)},
          s2 \in {At(screen_verts, tri.v2)},
          s3 \in {At(screen_verts, tri.v3)},
          v1 \in {At(transformed_verts, tri.v1)},
          v2 \in {At(transformed_verts, tri.v2)},
          v3 \in {At(transformed_verts, tri.v3)} :
       \E skip \in {AnyNotFinite(s1, s2, s3)} :
       \E r \in {IF skip
                 THEN NotDrawn(tri.color, frame)
                 ELSE CullDraw(TheWorld.light, s1, s2, s3, tri.color, frame, FaceNormal(v1, v2, v3))} :
           /\ frame' = r.frame
           /\ log' = Append(log, [obj     |-> cur,
                                  tri     |-> t,
                                  key     |-> Head(z_ordered_tris).key,
                                  s       |-> <<s1, s2, s3>>,
                                  skipped |-> skip,
                                  drawn   |-> r.called,
                                  writes  |-> r.writes,
                                  p_color |-> r.p_color,
                                  changed |-> r.frame # frame])
           /\ z_ordered_tris' = rest
           /\ pc' = IF r.panic THEN "panicked"
                    ELSE IF rest = <<>> THEN "objects" ELSE "tris"
    /\ UNCHANGED <<camera, redraw, view_mat, sorted_models, cur, screen_verts, zbuffer,
                   transformed_verts, shot, shotcam, moves, inp, out>>

\* draw returns and pixels.render() succeeds.
DrawEnd ==
    /\ pc = "objects"
    /\ sorted_models = <<>>
    /\ pc' = "input"
    /\ cur' = 0
    /\ screen_verts' = None
    /\ zbuffer' = None
    /\ transformed_verts' = None
    /\ z_ordered_tris' = None
    /\ shot' = IF shot = {} THEN {[camera |-> camera, frame |-> frame, again |-> FALSE]}
                ELSE {[sh EXCEPT !.again = TRUE] : sh \in shot}
    /\ shotcam' = {camera}
    /\ UNCHANGED <<camera, frame, redraw, view_mat, sorted_models, log, moves, inp, out>>

\* draw returns and pixels.render() fails: the loop exits.
RenderError ==
    /\ pc = "objects"
    /\ sorted_models = <<>>
    /\ pc' = "exited"
    /\ view_mat' = None
    /\ UNCHANGED <<camera, frame, redraw, drawvars, log, shot, shotcam, moves, inp, out>>

\* The rest of the closure: if input.update(&event) says so (update), exit on
\* Escape or a close request (esc) and on a resize that fails (resize_err),
\* else orbit, handle_keys with the keys held and request_redraw.
InputUpdate(update, esc, resize_err, held) ==
    /\ pc = "input"
    /\ held # {} => moves < MaxMoves
    /\ view_mat' = None
    /\ IF ~update
       THEN /\ pc' = "loop"
            /\ UNCHANGED <<camera, redraw, moves>>
       ELSE IF esc \/ resize_err
       THEN /\ pc' = "exited"
            /\ UNCHANGED <<camera, redraw, moves>>
       ELSE /\ camera' = handle_keys(held, Orbit(camera, F(0), F(0)), FDiv(F(1), F(10)))
            /\ redraw' = TRUE
            /\ moves' = IF held = {} THEN moves ELSE moves + 1
            /\ pc' = "loop"
    /\ UNCHANGED <<frame, drawvars, log, shot, shotcam, inp, out>>

Next ==
    \/ \E kind \in {"RedrawRequested", "Other"} : Callback(kind)
    \/ ProjectObject
    \/ DrawTri
    \/ DrawEnd
    \/ RenderError
    \/ \E update \in BOOLEAN, esc \in BOOLEAN, resize_err \in BOOLEAN, held \in HeldSets :
          InputUpdate(update, esc, resize_err, held)

Spec == Init /\ [][Next]_vars

(***************************************************************************)
(* The functions on their own.  The specifications below apply one         *)
(* function to arguments from a small set; inp holds the arguments and out *)
(* the result, as a sequence of length one; a behaviour applies the        *)
(* function once.  The event loop does not run in them: its variables stay *)
(* as Parked leaves them.                                                  *)
(***************************************************************************)
parkedvars == <<camera, frame, redraw, pc, view_mat, sorted_models, cur, screen_verts, zbuffer,
                transformed_verts, z_ordered_tris, log, shot, shotcam, moves>>

Parked(at) ==
    /\ camera = InitCamera
    /\ frame = [i \in 0..(FrameLen - 1) |-> 255]
    /\ redraw = FALSE
    /\ pc = at
    /\ view_mat = None
    /\ sorted_models = None
    /\ cur = 0
    /\ screen_verts = None
    /\ zbuffer = None
    /\ transformed_verts = None
    /\ z_ordered_tris = None
    /\ log = <<>>
    /\ shot = {}
    /\ shotcam = {}
    /\ moves = 0
    /\ inp = None
    /\ out = None

\* The colour and the normal of the triangles given to draw_triangle.
PlainColor == Color(200, 100, 50, 40)

PlainNorm == V3(0, 0, 1)

\* How far outside the frame the far vertices lie.
Beyond == 6

\* Screen points around a frame of WIDTH by HEIGHT: far outside on each
\* side, on the right edge and just beyond it, between pixel centres,
\* inside.
RasterPts ==
    { Point2(F(p[1]), F(p[2])) :
        p \in { <<-Beyond, -Beyond>>, <<WIDTH + Beyond, 1>>, <<1, HEIGHT + Beyond>>, <<0, 0>>,
                <<WIDTH - 1, 1>>, <<WIDTH + 1, 1>>, <<WIDTH, 3>>, <<1, HEIGHT - 1>> } }
        \cup { Point2(FDiv(F(5), F(2)), F(1)) }

\* draw_triangle for one triangle, on a white frame.
Rasterize(t1, t2, t3) ==
    /\ pc = "raster"
    /\ inp = None
    /\ inp' = <<t1, t2, t3>>
    /\ out' = << draw_triangle(TheWorld.light, t1, t2, t3, PlainColor, frame, PlainNorm) >>
    /\ UNCHANGED parkedvars

InitRaster == Parked("raster")

NextRaster == \E t1 \in RasterPts, t2 \in RasterPts, t3 \in RasterPts : Rasterize(t1, t2, t3)

SpecRaster == InitRaster /\ [][NextRaster]_vars

\* Screen points for is_front_facing and the inside test: a few on a small
\* grid, three of them on a line, and three nearly on a line, far apart.
TriPts ==
    { Point2(F(0), F(0)), Point2(F(2), F(0)), Point2(F(0), F(2)), Point2(F(1), F(1)),
      Point2(F(3), F(2)),
      Point2(FDiv(F(93), F(64)), FDiv(F(17), F(2))), Point2(F(196), F(241)),
      Point2(F(123), F(154)) }

\* The centroid of a triangle, in f32.
Centroid(p1, p2, p3) ==
    Point2(FDiv(FAdd(FAdd(p1[1], p2[1]), p3[1]), F(3)),
           FDiv(FAdd(FAdd(p1[2], p2[2]), p3[2]), F(3)))

\* For one triangle: cross and the verdict of is_front_facing, the inside
\* test of draw_triangle at its vertices and its centroid, and what the end
\* of draw's loop body does with it and with its last two vertices swapped.
Winding(p1, p2, p3) ==
    /\ pc = "tri"
    /\ inp = None
    /\ inp' = <<p1, p2, p3>>
    /\ out' = << [cross    |-> SignedArea(p1, p2, p3),
                  across   |-> SignedArea(p1, p3, p2),
                  front    |-> is_front_facing(p1, p2, p3),
                  inside   |-> << InsideTest(p1, p2, p3, p1),
                                  InsideTest(p1, p2, p3, p2),
                                  InsideTest(p1, p2, p3, p3),
                                  InsideTest(p1, p2, p3, Centroid(p1, p2, p3)) >>,
                  kept     |-> CullDraw(TheWorld.light, p1, p2, p3, PlainColor, frame, PlainNorm),
                  swapped  |-> CullDraw(TheWorld.light, p1, p3, p2, PlainColor, frame, PlainNorm)] >>
    /\ UNCHANGED parkedvars

InitTri == Parked("tri")

NextTri == \E p1 \in TriPts, p2 \in TriPts, p3 \in TriPts : Winding(p1, p2, p3)

SpecTri == InitTri /\ [][NextTri]_vars

\* The colours, lights and normals the shading is applied to.
ShadeColors ==
    { Color(200, 100, 0, 255), Color(255, 196, 1, 128), Color(40, 190, 90, 0),
      Color(197, 13, 254, 77) }

ShadeLights ==
    { [TheWorld.light EXCEPT !.intensity = i, !.ambient = a] :
        i \in {F(1), F(2), FDiv(F(1), F(2))},
        a \in {FDiv(F(3), F(10)), F(0), F(1)} }

ShadeNorms ==
    { V3(0, 0, 1), V3(0, 0, -1), V3(0, 1, 0),
      Normalize(V3(1, -1, 1)), Cross(Normalize(V3(1, 0, 0)), Normalize(V3(1, 1, 0))) }

\* The p_color draw_triangle computes, with its coloring.
Colorize(light, color, norm) ==
    /\ pc = "color"
    /\ inp = None
    /\ inp' = <<light, color, norm>>
    /\ out' = << [coloring |-> Coloring(light, norm), p_color |-> Shade(light, color, norm)] >>
    /\ UNCHANGED parkedvars

InitColor == Parked("color")

NextColor ==
    \E light \in ShadeLights, color \in ShadeColors, norm \in ShadeNorms : Colorize(light, color, norm)

SpecColor == InitColor /\ [][NextColor]_vars

(***************************************************************************)
(* The properties.                                                         *)
(***************************************************************************)
\* The byte offsets of the pixels of the frame.
PixelOffsets == {PixelIndex(x, y) : x \in 0..(WIDTH - 1), y \in 0..(HEIGHT - 1)}

\* The four bytes of the frame f at the offset w, and those of a colour.
Bytes(f, w) == <<f[w], f[w + 1], f[w + 2], f[w + 3]>>

Rgba(c) == <<c.r, c.g, c.b, c.a>>

\* The triangles of the log that wrote the pixel at w, and the last of some.
Writers(w) == {i \in DOMAIN log : w \in log[i].writes}

Last(S) == CHOOSE i \in S : \A j \in S : j <= i

\* draw is running; draw has run to its end and the frame is as it left it.
InDraw == pc \in {"objects", "tris"}

DrawDone == (pc = "objects" /\ sorted_models = <<>>) \/ shotcam # {}

\* The camera the log's draw runs or ran with.
DrawCams == IF InDraw THEN {camera} ELSE shotcam

\* The camera-space z of the origin of the object at place o of models.
DepthOf(cam, o) == object_depth(cam, model_mat(TheWorld.models[o]))

\* The integer part of a number that is not negative.
Floor(x) == IF x.e >= 0 THEN x.m * 2^(x.e) ELSE x.m \div 2^(-x.e)

\* C1: whatever triangle draw_triangle is given, far outside the frame or
\* not, every write is of four bytes inside the frame, nothing else of the
\* frame changes, no slice index is out of range and no negative coordinate
\* is turned into an index.
C1_BoundsSafety ==
    \A k \in DOMAIN out :
        pc = "raster" =>
            /\ \A w \in out[k].writes : 0 <= w /\ w + 4 <= FrameLen
            /\ ~out[k].panic
            /\ ~out[k].negative
            /\ \A p \in out[k].tested : p[1] >= 0 /\ p[2] >= 0
            /\ DOMAIN out[k].frame = DOMAIN frame
            /\ \A i \in DOMAIN frame : out[k].frame[i] # frame[i] => (i - (i % 4)) \in out[k].writes

\* C1's case: a triangle with vertices far outside the frame on both sides,
\* which writes pixels and has inside points that the length check keeps
\* from being written.
C1_Witness ==
    /\ pc = "raster"
    /\ \E k \in DOMAIN out :
        /\ \E v \in 1..3 : FLt(inp[v][1], F(-WIDTH)) /\ FLt(inp[v][2], F(-HEIGHT))
        /\ \E v \in 1..3 : FGt(inp[v][1], F(2 * WIDTH))
        /\ \E v \in 1..3 : FGt(inp[v][2], F(2 * HEIGHT))
        /\ out[k].writes # {}
        /\ \E p \in out[k].inside : PixelIndex(p[1], p[2]) + 4 > FrameLen

\* C2: a triangle that is_front_facing accepts passes the inside test of
\* draw_triangle at each of its vertices; the claim has it pass at the
\* centroid too (out[k].inside[4]), which this does not ask for.
C2_WindingConsistency ==
    \A k \in DOMAIN out :
        pc = "tri" /\ out[k].front => \A v \in 1..3 : out[k].inside[v]

\* C3: a draw goes through the objects in ascending order of the depth of
\* their origin, each object's triangles together; when it is done, a pixel
\* written by a drawn triangle of an object holds the colour written last,
\* by an object that is not farther than that one.
C3_OcclusionOrder ==
    \A cam \in DrawCams :
    \E depth \in {[o \in DOMAIN TheWorld.models |-> DepthOf(cam, o)]} :
        /\ \A i \in DOMAIN log, j \in DOMAIN log :
             i < j =>
                /\ OrdLe(depth[log[i].obj], depth[log[j].obj])
                /\ log[i].obj = log[j].obj => \A k \in i..j : log[k].obj = log[i].obj
        /\ DrawDone =>
             \A j \in DOMAIN log : \A w \in log[j].writes :
                 \E l \in {Last(Writers(w))} :
                    /\ ~FLt(depth[log[l].obj], depth[log[j].obj])
                    /\ Bytes(frame, w) = Rgba(log[l].p_color)

\* C3's case: a draw is done in which a farther and a nearer object both
\* wrote a pixel, in different colours, and the pixel has the nearer one's.
C3_Witness ==
    /\ DrawDone
    /\ \E cam \in DrawCams :
       \E depth \in {[o \in DOMAIN TheWorld.models |-> DepthOf(cam, o)]} :
       \E i \in DOMAIN log, j \in DOMAIN log :
        /\ FLt(depth[log[i].obj], depth[log[j].obj])
        /\ log[i].drawn /\ log[j].drawn
        /\ \E w \in log[i].writes \cap log[j].writes :
            /\ Rgba(log[i].p_color) # Rgba(log[j].p_color)
            /\ Bytes(frame, w) = Rgba(log[j].p_color)

C5_DepthClamp ==
    /\ pc = "tris" =>
         \E o \in {TheWorld.models[cur]} :
         \E proj \in {MatMul(MatMul(TheWorld.proj_mat, view_mat), model_mat(o))} :
            \A i \in 1..Len(o.mesh.verts) :
                \E z \in {NdcZ(proj, o.mesh.verts[i])} :
                    IF FLe(F(0), z) /\ FLe(z, F(1))
                    THEN is_finite(screen_verts[i][1]) /\ is_finite(screen_verts[i][2])
                    ELSE screen_verts[i] = Sentinel
    /\ \A k \in DOMAIN log :
         (\E v \in 1..3 : log[k].s[v] = Sentinel) =>
            ~log[k].drawn /\ log[k].writes = {} /\ ~log[k].changed

\* C5's case: an object has a usable vertex with ndc_z of 0 and a vertex
\* whose ndc_z is below 0, and a triangle with that vertex and two usable
\* ones has been skipped.
C5_Witness ==
    /\ pc = "tris"
    /\ \E o \in {TheWorld.models[cur]} :
       \E proj \in {MatMul(MatMul(TheWorld.proj_mat, view_mat), model_mat(o))} :
          /\ \E i \in 1..Len(o.mesh.verts) :
                NdcZ(proj, o.mesh.verts[i]) = F(0) /\ screen_verts[i] # Sentinel
          /\ \E i \in 1..Len(o.mesh.verts) :
                FLt(NdcZ(proj, o.mesh.verts[i]), F(0)) /\ screen_verts[i] = Sentinel
    /\ \E k \in DOMAIN log :
          /\ log[k].skipped /\ log[k].writes = {}
          /\ log[k].s[3] = Sentinel /\ log[k].s[1] # Sentinel /\ log[k].s[2] # Sentinel

\* C6: in a draw and after it, a pixel that no triangle of this draw has
\* written is white, so the whole frame is before the first triangle; and a
\* draw with the camera of the first draw leaves the frame the first draw
\* left, whatever the frame held before.
C6_BufferClear ==
    /\ (InDraw \/ shotcam # {}) =>
          \A w \in PixelOffsets : Writers(w) = {} => Bytes(frame, w) = <<255, 255, 255, 255>>
    /\ \A sh \in shot : shotcam = {sh.camera} => frame = sh.frame

\* C6's case: a later draw with the first draw's camera is done, with a
\* pixel no triangle wrote.
C6_Witness ==
    /\ \E sh \in shot : sh.again /\ shotcam = {sh.camera} /\ frame = sh.frame
    /\ \E w \in PixelOffsets : Writers(w) = {} /\ Bytes(frame, w) = <<255, 255, 255, 255>>
    /\ \E w \in PixelOffsets : Writers(w) # {}

\* C7, as the code has it: r, g and b are the integer part of the f32
\* product of the channel and ambient + clamp(dot(light_dir, normal) *
\* intensity, 0, 1), and 255 where the product is above 255; a is the
\* triangle's alpha.
C7_ColorNarrowing ==
    \A k \in DOMAIN out :
        pc = "color" =>
            \E light \in {inp[1]}, color \in {inp[2]}, norm \in {inp[3]} :
            \E d \in {FMul(Dot3(Normalize(VSub(light.target, light.position)), norm), light.intensity)} :
            \E factor \in {FAdd(light.ambient,
                                IF FLt(d, F(0)) THEN F(0) ELSE IF FGt(d, F(1)) THEN F(1) ELSE d)} :
                LET Narrow(comp) ==
                        IF Floor(FMul(F(comp), factor)) > 255 THEN 255
                        ELSE Floor(FMul(F(comp), factor))
                IN  /\ out[k].coloring = factor
                    /\ out[k].p_color = [r |-> Narrow(color.r), g |-> Narrow(color.g),
                                         b |-> Narrow(color.b), a |-> color.a]

\* C7 as the claim has it: a product above 255 wraps modulo 256.
C7_Wraps ==
    \A k \in DOMAIN out :
        pc = "color" =>
            \E color \in {inp[2]}, factor \in {out[k].coloring} :
                out[k].p_color = [r |-> Floor(FMul(F(color.r), factor)) % 256,
                                  g |-> Floor(FMul(F(color.g), factor)) % 256,
                                  b |-> Floor(FMul(F(color.b), factor)) % 256,
                                  a |-> color.a]

\* C7's case: channel 200 with a factor that takes it to 260, which becomes
\* 255.
C7_Witness ==
    /\ pc = "color"
    /\ \E k \in DOMAIN out :
        /\ inp[2].r = 200
        /\ FMul(F(200), out[k].coloring) = F(260)
        /\ out[k].p_color.r = 255
        /\ out[k].p_color.a = inp[2].a

\* C8: a pixel is written by draw_triangle, for a triangle that draw hands
\* to it, only if the point of its column and row passes the three edge
\* tests of the triangle.
C8_PixelRange ==
    \A k \in DOMAIN out :
        pc = "raster" /\ is_front_facing(inp[1], inp[2], inp[3]) =>
            \A x \in 0..(WIDTH - 1), y \in 0..(HEIGHT - 1) :
                PixelIndex(x, y) \in out[k].writes =>
                    InsideTest(inp[1], inp[2], inp[3], Point2(F(x), F(y)))

\* C9: the triangles of an object are gone through in ascending order of
\* their keys, the means of the z of their vertices in the zbuffer made for
\* the object; of two drawn triangles of an object that wrote a pixel, the
\* one with the larger key wrote later, and the pixel has the colour of the
\* last one if no other object wrote it since.
C9_TriangleOrder ==
    /\ \A i \in DOMAIN log, j \in DOMAIN log :
          i < j /\ log[i].obj = log[j].obj => OrdLe(log[i].key, log[j].key)
    /\ pc = "tris" =>
          \E o \in {TheWorld.models[cur]} :
             /\ zbuffer = [i \in 1..Len(o.mesh.verts) |->
                             MatVec(MatMul(view_mat, model_mat(o)), Homogeneous(o.mesh.verts[i]))]
             /\ \A k \in DOMAIN log :
                   log[k].obj = cur => log[k].key = TriDepth(zbuffer, At(o.mesh.tris, log[k].tri))
    /\ \A i \in DOMAIN log, j \in DOMAIN log :
          log[i].obj = log[j].obj /\ FLt(log[i].key, log[j].key) =>
             \A w \in log[i].writes \cap log[j].writes :
                \E l \in {Last({k \in Writers(w) : log[k].obj = log[j].obj})} :
                   /\ i < j
                   /\ ~FLt(log[l].key, log[j].key)
                   /\ Last(Writers(w)) = l => Bytes(frame, w) = Rgba(log[l].p_color)

\* C9's case: two drawn triangles of an object, the one the mesh lists first
\* with the larger key, wrote a pixel, which has the colour of that one.
C9_Witness ==
    \E i \in DOMAIN log, j \in DOMAIN log :
        /\ log[i].obj = log[j].obj
        /\ FLt(log[i].key, log[j].key)
        /\ log[j].tri < log[i].tri
        /\ \E w \in log[i].writes \cap log[j].writes :
            /\ Rgba(log[i].p_color) # Rgba(log[j].p_color)
            /\ Bytes(frame, w) = Rgba(log[j].p_color)

\* C10: while draw runs, the view matrix it was given is the one of the
\* camera as it is, and the keys the objects were sorted by are depths for
\* that camera.
C10_ViewMatrix ==
    InDraw =>
        /\ view_mat = generate_view_mat(camera)
        /\ \A k \in DOMAIN sorted_models :
              sorted_models[k].key = DepthOf(camera, sorted_models[k].item)

\* C10's case: a draw that follows an earlier draw and a move of the camera.
C10_Witness ==
    /\ pc = "tris"
    /\ shot # {}
    /\ moves > 0
    /\ camera # InitCamera
    /\ \A sh \in shot : sh.camera # camera

====
